---- MODULE Spec2Model ----
(***************************************************************************)
(* Brute-force lockout engine of app/brute_force_protection.py:            *)
(* BruteForceProtection with its two key -> LockoutStatus maps, the        *)
(* attempt recorder, the lockout calculator, the window pruner, the lazy   *)
(* expiry check and the cleanup sweep.                                     *)
(*                                                                         *)
(* Time.  time.time() is a float number of seconds.  The model's clock     *)
(* `now` counts ticks of 1/TicksPerSec second, so sub-second instants      *)
(* exist; configuration values are whole seconds and are converted with    *)
(* Secs(); Python's int() on a non-negative float is ToInt().              *)
(***************************************************************************)
EXTENDS Integers, Sequences, FiniteSets, TLC

(* ---------------------------- bounds ----------------------------------- *)
TicksPerSec == 2
StartTime == 1
\* Spec: one address and one account, followed over MaxTime ticks
MaxTime == 4
MaxCalls == 3
\* SpecKeys: two addresses and two accounts, over a shorter run
MaxTimeKeys == 3
MaxCallsKeys == 2
\* SpecConc: threads inside record_attempt, interleaved statement by statement
NThreads == 2
MaxCallsConc == 4
\* SpecLogin: login requests handled by the API
MaxRequests == 3
\* SpecCalc: arguments of the lockout calculator (seconds, lockout_count)
MaxBase == 3
MaxCap == 4
MaxLockoutCount == 3
\* SpecPrune: length of the histories handed to the window pruner
MaxHistory == 3

(* ---------------------------- values ----------------------------------- *)
\* Python None for the Optional[float] / Optional[int] fields and results.
None == -1

IPs == {"1.2.3.4", "5.6.7.8"}
Emails == {"a@b.com", "c@d.com"}
OneIP == {"1.2.3.4"}
OneEmail == {"a@b.com"}

\* Constructor arguments explored (seconds), scaled down from the defaults.
Config(m, b, x, mx, w, c) ==
  [max_attempts |-> m, lockout_duration |-> b, exponential_backoff |-> x,
   max_lockout_duration |-> mx, window_duration |-> w, cleanup_interval |-> c]

\* Constructor arguments explored (seconds), scaled down from the defaults:
\* backoff 1, 2, 3 (capped); a base above the maximum; backoff switched off.
Configs ==
  { Config(2, 1, TRUE, 3, 1, 1), Config(3, 1, TRUE, 3, 1, 1),
    Config(2, 2, TRUE, 1, 1, 1), Config(2, 1, FALSE, 3, 1, 1) }

ConfigsKeys == { Config(m, 1, TRUE, 3, 1, 1) : m \in {2, 3} }

\* max_attempts=3, lockout_duration=10, window_duration=60, backoff disabled;
\* the other arguments at their defaults
ScenarioConfig == Config(3, 10, FALSE, 3600, 60, 3600)

ConfigsConc == { Config(2, 1, TRUE, 3, 1, 1) }

Threads == 1..NThreads

VARIABLES
  cfg,               \* constructor arguments (self.max_attempts, ...)
  now,               \* the clock read by time.time(), in ticks
  ip_attempts,       \* self.ip_attempts: address -> LockoutStatus
  account_attempts,  \* self.account_attempts: account -> LockoutStatus
  last_cleanup,      \* self.last_cleanup
  calls,             \* number of record_attempt calls made so far
  th,                \* per thread: where it is in record_attempt, and its locals
  last               \* the call just made on the engine and what it returned

vars == <<cfg, now, ip_attempts, account_attempts, last_cleanup, calls, th, last>>

(* ---------------------------- helpers ---------------------------------- *)
Min(a, b) == IF a < b THEN a ELSE b
Max(a, b) == IF a > b THEN a ELSE b

\* whole seconds -> ticks
Secs(s) == s * TicksPerSec

\* int(x) for x >= 0 given in ticks: whole seconds, truncated
ToInt(ticks) == ticks \div TicksPerSec

\* LoginAttempt(timestamp, success, ip_address, email)
LoginAttempt(t, success, ip, email) ==
  [timestamp |-> t, success |-> success, ip_address |-> ip, email |-> email]

\* LockoutStatus() with its dataclass defaults
LockoutStatus ==
  [failed_attempts |-> 0, first_attempt_time |-> None, last_attempt_time |-> None,
   locked_until |-> None, lockout_count |-> 0, attempts |-> <<>>]

\* self.ip_attempts[key] on a defaultdict: the entry, created when missing
GetOrCreate(map, key) == IF key \in DOMAIN map THEN map[key] ELSE LockoutStatus

\* map with map[key] = status
Put(map, key, status) ==
  [k \in DOMAIN map \cup {key} |-> IF k = key THEN status ELSE map[k]]

\* del map[key]
Del(map, keys) == [k \in DOMAIN map \ keys |-> map[k]]

\* sum(1 for attempt in attempts if not attempt.success)
RECURSIVE CountFailed(_)
CountFailed(attempts) ==
  IF attempts = <<>> THEN 0
  ELSE (IF attempts[1].success THEN 0 ELSE 1) + CountFailed(Tail(attempts))

\* max(a.timestamp for a in attempts), attempts non-empty
RECURSIVE MaxTimestamp(_)
MaxTimestamp(attempts) ==
  IF Len(attempts) = 1 THEN attempts[1].timestamp
  ELSE Max(attempts[1].timestamp, MaxTimestamp(Tail(attempts)))

RECURSIVE Pow2(_)
Pow2(n) == IF n = 0 THEN 1 ELSE 2 * Pow2(n - 1)

(* ----------------------- _calculate_lockout_duration ------------------- *)
\* mutant: the exponential duration without the cap at max_lockout_duration
CalculateLockoutDuration_NoCap(lockout_count) ==
  IF ~cfg.exponential_backoff \/ lockout_count = 0
  THEN cfg.lockout_duration
  ELSE cfg.lockout_duration * Pow2(lockout_count)

\* mutant: the backoff is applied even when exponential_backoff is off
CalculateLockoutDuration_AlwaysBackoff(lockout_count) ==
  IF lockout_count = 0
  THEN cfg.lockout_duration
  ELSE Min(cfg.lockout_duration * Pow2(lockout_count), cfg.max_lockout_duration)

\* mutant: the exponent is one less than the lockout count
CalculateLockoutDuration_OffByOne(lockout_count) ==
  IF ~cfg.exponential_backoff \/ lockout_count = 0
  THEN cfg.lockout_duration
  ELSE Min(cfg.lockout_duration * Pow2(lockout_count - 1), cfg.max_lockout_duration)

\* mutant: the backoff divides instead of multiplying
CalculateLockoutDuration_Decay(lockout_count) ==
  IF ~cfg.exponential_backoff \/ lockout_count = 0
  THEN cfg.lockout_duration
  ELSE Min(cfg.lockout_duration \div Pow2(lockout_count), cfg.max_lockout_duration)

\* seconds
CalculateLockoutDuration(lockout_count) ==
  IF ~cfg.exponential_backoff \/ lockout_count = 0
  THEN cfg.lockout_duration
  ELSE Min(cfg.lockout_duration * Pow2(lockout_count), cfg.max_lockout_duration)

(* ----------------------- _prune_old_attempts --------------------------- *)
\* mutant: a record exactly window_duration old is kept
InWindow_Inclusive(attempt, t) == attempt.timestamp >= t - Secs(cfg.window_duration)

InWindow(attempt, t) == attempt.timestamp > t - Secs(cfg.window_duration)

PruneOldAttempts(status, t) ==
  LET kept == SelectSeq(status.attempts, LAMBDA a : InWindow(a, t))
  IN [status EXCEPT !.attempts = kept, !.failed_attempts = CountFailed(kept)]

(* ----------------------- _cleanup_old_data ----------------------------- *)
\* The engine's mutable fields as one value, so that a handler's calls compose.
Store == [ip |-> ip_attempts, account |-> account_attempts, last_cleanup |-> last_cleanup]

\* mutant: the sweep runs on every call
CleanupDue_Always(store, t) == t >= store.last_cleanup

CleanupDue(store, t) == ~(t - store.last_cleanup < Secs(cfg.cleanup_interval))

\* mutant: the sweep collects every entry whose lock has lapsed, recent
\* attempts or not
ToRemove_IgnoresHistory(map, t) ==
  { k \in DOMAIN map : map[k].locked_until # None /\ map[k].locked_until < t }

\* the keys one loop of the sweep collects in ips_to_remove / accounts_to_remove
ToRemove(map, t) ==
  { k \in DOMAIN map :
      /\ map[k].locked_until # None /\ map[k].locked_until < t
      /\ \/ map[k].attempts = <<>>
         \/ MaxTimestamp(map[k].attempts) < t - Secs(cfg.window_duration) }

CleanupOldData(store, t) ==
  IF CleanupDue(store, t)
  THEN [ip |-> Del(store.ip, ToRemove(store.ip, t)),
        account |-> Del(store.account, ToRemove(store.account, t)),
        last_cleanup |-> t]
  ELSE store

(* ----------------------- is_ip_locked / is_account_locked -------------- *)
\* mutant: an expired lock is reported as unlocked but not cleared
LockCheck_NoClear(map, key, t) ==
  IF key \notin DOMAIN map \/ map[key].locked_until = None
  THEN <<map, FALSE, None>>
  ELSE IF map[key].locked_until > t
       THEN <<map, TRUE, ToInt(map[key].locked_until - t)>>
       ELSE <<map, FALSE, None>>

\* mutant: the check indexes the defaultdict (self.ip_attempts[key]) instead of
\* calling .get, so that asking about an unknown key creates its entry
LockCheck_Creates(map, key, t) ==
  IF key \notin DOMAIN map
  THEN <<Put(map, key, LockoutStatus), FALSE, None>>
  ELSE IF map[key].locked_until = None
       THEN <<map, FALSE, None>>
       ELSE IF map[key].locked_until > t
            THEN <<map, TRUE, ToInt(map[key].locked_until - t)>>
            ELSE <<[map EXCEPT ![key].locked_until = None], FALSE, None>>

\* lines 160-171 / 185-196 on one map: <<new map, is_locked, seconds>>
LockCheck(map, key, t) ==
  IF key \notin DOMAIN map \/ map[key].locked_until = None
  THEN <<map, FALSE, None>>
  ELSE IF map[key].locked_until > t
       THEN <<map, TRUE, ToInt(map[key].locked_until - t)>>
       ELSE <<[map EXCEPT ![key].locked_until = None], FALSE, None>>

\* is_ip_locked as a function of the store: the store it leaves and its result
IsIpLockedIn(store, ip, t) ==
  LET swept == CleanupOldData(store, t)
      r == LockCheck(swept.ip, ip, t)
  IN [store |-> [swept EXCEPT !.ip = r[1]], locked |-> r[2], remaining |-> r[3]]

IsAccountLockedIn(store, email, t) ==
  LET swept == CleanupOldData(store, t)
      r == LockCheck(swept.account, email, t)
  IN [store |-> [swept EXCEPT !.account = r[1]], locked |-> r[2], remaining |-> r[3]]

\* what the last call returned; the fields a call does not return keep these values
NoCall ==
  [op |-> "none", ip |-> "", email |-> "", success |-> FALSE, t |-> 0,
   swept |-> FALSE, locked |-> FALSE, remaining |-> None, reason |-> "None",
   lockout_duration |-> 0, ip_locked |-> FALSE, account_locked |-> FALSE,
   status |-> <<>>]

SetStore(store) ==
  /\ ip_attempts' = store.ip
  /\ account_attempts' = store.account
  /\ last_cleanup' = store.last_cleanup

IsIpLocked(ip) ==
  LET r == IsIpLockedIn(Store, ip, now) IN
  /\ SetStore(r.store)
  /\ last' = [NoCall EXCEPT !.op = "is_ip_locked", !.ip = ip, !.t = now,
                            !.swept = CleanupDue(Store, now),
                            !.locked = r.locked, !.remaining = r.remaining]
  /\ UNCHANGED <<cfg, now, calls, th>>

IsAccountLocked(email) ==
  LET r == IsAccountLockedIn(Store, email, now) IN
  /\ SetStore(r.store)
  /\ last' = [NoCall EXCEPT !.op = "is_account_locked", !.email = email, !.t = now,
                            !.swept = CleanupDue(Store, now),
                            !.locked = r.locked, !.remaining = r.remaining]
  /\ UNCHANGED <<cfg, now, calls, th>>

(* ----------------------- get_status ------------------------------------ *)
\* `if ip_address:` / `if email:` -- None and the empty string are both false
Truthy(key) == key # ""

\* result["ip"] / result["account"]; <<>> when the key is left out of the result
StatusEntry(status, r) ==
  <<status.failed_attempts, r.locked, r.remaining, status.lockout_count>>

\* The status object is fetched before the lock check runs, and the check's
\* lazy expiry writes to that same object.
GetStatus(ip, email) ==
  LET hasIp == Truthy(ip) /\ ip \in DOMAIN Store.ip
      r1 == IF hasIp THEN IsIpLockedIn(Store, ip, now)
            ELSE [store |-> Store, locked |-> FALSE, remaining |-> None]
      s1 == r1.store
      hasAc == Truthy(email) /\ email \in DOMAIN s1.account
      r2 == IF hasAc THEN IsAccountLockedIn(s1, email, now)
            ELSE [store |-> s1, locked |-> FALSE, remaining |-> None]
  IN
  /\ SetStore(r2.store)
  /\ last' = [NoCall EXCEPT
                !.op = "get_status", !.ip = ip, !.email = email, !.t = now,
                !.swept = (hasIp /\ CleanupDue(Store, now)) \/ (hasAc /\ CleanupDue(s1, now)),
                !.status =
                   [ip |-> IF hasIp THEN StatusEntry(Store.ip[ip], r1) ELSE <<>>,
                    account |-> IF hasAc THEN StatusEntry(s1.account[email], r2) ELSE <<>>]]
  /\ UNCHANGED <<cfg, now, calls, th>>

(* ----------------------- record_attempt -------------------------------- *)
\* mutant: the new attempt replaces the history instead of extending it
Appended_Replacing(status, attempt) ==
  [status EXCEPT !.attempts = <<attempt>>,
                 !.last_attempt_time = attempt.timestamp,
                 !.first_attempt_time = IF @ = None THEN attempt.timestamp ELSE @]

\* lines 224-237: append the attempt, stamp last/first attempt time
Appended(status, attempt) ==
  [status EXCEPT !.attempts = Append(@, attempt),
                 !.last_attempt_time = attempt.timestamp,
                 !.first_attempt_time = IF @ = None THEN attempt.timestamp ELSE @]

\* lines 250-255 on one status: prune, then increment the counter
Counted(status, t) ==
  LET p == PruneOldAttempts(status, t)
  IN [p EXCEPT !.failed_attempts = @ + 1]

\* lines 267-270 / 277-280 on one status
Threshold(status) == status.failed_attempts >= cfg.max_attempts

\* mutant: a lock imposed on a key that is still locked does not count
Imposed_CountsNewLocksOnly(status, t) ==
  IF Threshold(status)
  THEN [status EXCEPT
          !.locked_until = t + Secs(CalculateLockoutDuration(status.lockout_count)),
          !.lockout_count = IF status.locked_until # None /\ status.locked_until > t
                            THEN @ ELSE @ + 1]
  ELSE status

\* mutant: imposing a lock starts the key's history afresh
Imposed_ClearsHistory(status, t) ==
  IF Threshold(status)
  THEN [status EXCEPT
          !.locked_until = t + Secs(CalculateLockoutDuration(status.lockout_count)),
          !.lockout_count = @ + 1,
          !.attempts = <<>>,
          !.failed_attempts = 0]
  ELSE status

Imposed(status, t) ==
  IF Threshold(status)
  THEN [status EXCEPT
          !.locked_until = t + Secs(CalculateLockoutDuration(status.lockout_count)),
          !.lockout_count = @ + 1]
  ELSE status

\* mutant: the returned duration is the account's whenever the account lock
\* fires, instead of the maximum of the two
RecordAttempt_AccountDuration(ip, email, success) ==
  LET attempt == LoginAttempt(now, success, ip, email)
      ip0 == Appended(GetOrCreate(ip_attempts, ip), attempt)
      ac0 == Appended(GetOrCreate(account_attempts, email), attempt)
      ip1 == Counted(ip0, now)
      ac1 == Counted(ac0, now)
      ipDur == IF Threshold(ip1) THEN CalculateLockoutDuration(ip1.lockout_count) ELSE 0
      acDur == IF Threshold(ac1) THEN CalculateLockoutDuration(ac1.lockout_count) ELSE 0
  IN
  /\ calls' = calls + 1
  /\ IF success
     THEN /\ ip_attempts' = Put(ip_attempts, ip, [ip0 EXCEPT !.failed_attempts = 0])
          /\ account_attempts' =
               Put(account_attempts, email, [ac0 EXCEPT !.failed_attempts = 0])
          /\ last' = [NoCall EXCEPT !.op = "record_attempt", !.ip = ip, !.email = email,
                                    !.success = TRUE, !.t = now]
     ELSE /\ ip_attempts' = Put(ip_attempts, ip, Imposed(ip1, now))
          /\ account_attempts' = Put(account_attempts, email, Imposed(ac1, now))
          /\ last' = [NoCall EXCEPT
                        !.op = "record_attempt", !.ip = ip, !.email = email,
                        !.success = FALSE, !.t = now,
                        !.locked = Threshold(ip1) \/ Threshold(ac1),
                        !.ip_locked = Threshold(ip1),
                        !.account_locked = Threshold(ac1),
                        !.reason = IF Threshold(ac1)
                                   THEN (IF Threshold(ip1) THEN "both" ELSE "account")
                                   ELSE (IF Threshold(ip1) THEN "ip" ELSE "None"),
                        !.lockout_duration = IF Threshold(ac1) THEN acDur ELSE ipDur]
  /\ UNCHANGED <<cfg, now, last_cleanup, th>>

RecordAttempt(ip, email, success) ==
  LET attempt == LoginAttempt(now, success, ip, email)
      ip0 == Appended(GetOrCreate(ip_attempts, ip), attempt)
      ac0 == Appended(GetOrCreate(account_attempts, email), attempt)
      ip1 == Counted(ip0, now)
      ac1 == Counted(ac0, now)
      ipDur == IF Threshold(ip1) THEN CalculateLockoutDuration(ip1.lockout_count) ELSE 0
      acDur == IF Threshold(ac1) THEN CalculateLockoutDuration(ac1.lockout_count) ELSE 0
  IN
  /\ calls' = calls + 1
  /\ IF success
     THEN /\ ip_attempts' = Put(ip_attempts, ip, [ip0 EXCEPT !.failed_attempts = 0])
          /\ account_attempts' =
               Put(account_attempts, email, [ac0 EXCEPT !.failed_attempts = 0])
          /\ last' = [NoCall EXCEPT !.op = "record_attempt", !.ip = ip, !.email = email,
                                    !.success = TRUE, !.t = now]
     ELSE /\ ip_attempts' = Put(ip_attempts, ip, Imposed(ip1, now))
          /\ account_attempts' = Put(account_attempts, email, Imposed(ac1, now))
          /\ last' = [NoCall EXCEPT
                        !.op = "record_attempt", !.ip = ip, !.email = email,
                        !.success = FALSE, !.t = now,
                        !.locked = Threshold(ip1) \/ Threshold(ac1),
                        !.ip_locked = Threshold(ip1),
                        !.account_locked = Threshold(ac1),
                        !.reason = IF Threshold(ac1)
                                   THEN (IF Threshold(ip1) THEN "both" ELSE "account")
                                   ELSE (IF Threshold(ip1) THEN "ip" ELSE "None"),
                        !.lockout_duration = IF Threshold(ac1) THEN Max(ipDur, acDur)
                                             ELSE ipDur]
  /\ UNCHANGED <<cfg, now, last_cleanup, th>>

(* ----------------------- reset_ip / reset_account ---------------------- *)
\* mutant: the reset empties the entry but keeps its lockout_count
ResetIp_KeepsCount(ip) ==
  /\ ip_attempts' =
       [k \in DOMAIN ip_attempts |->
          IF k = ip
          THEN [LockoutStatus EXCEPT !.lockout_count = ip_attempts[k].lockout_count]
          ELSE ip_attempts[k]]
  /\ last' = [NoCall EXCEPT !.op = "reset_ip", !.ip = ip, !.t = now]
  /\ UNCHANGED <<cfg, now, account_attempts, last_cleanup, calls, th>>

\* mutant: the reset of an address also drops the account keyed by the same
\* string
ResetIp_BothMaps(ip) ==
  /\ ip_attempts' = Del(ip_attempts, {ip})
  /\ account_attempts' = Del(account_attempts, {ip})
  /\ last' = [NoCall EXCEPT !.op = "reset_ip", !.ip = ip, !.t = now]
  /\ UNCHANGED <<cfg, now, last_cleanup, calls, th>>

ResetIp(ip) ==
  /\ ip_attempts' = Del(ip_attempts, {ip})
  /\ last' = [NoCall EXCEPT !.op = "reset_ip", !.ip = ip, !.t = now]
  /\ UNCHANGED <<cfg, now, account_attempts, last_cleanup, calls, th>>

ResetAccount(email) ==
  /\ account_attempts' = Del(account_attempts, {email})
  /\ last' = [NoCall EXCEPT !.op = "reset_account", !.email = email, !.t = now]
  /\ UNCHANGED <<cfg, now, ip_attempts, last_cleanup, calls, th>>

(* ----------------------- the clock ------------------------------------- *)
\* Time passes; the result of the last call has been consumed by its caller.
Tick(maxTime) ==
  /\ now < maxTime
  /\ now' = now + 1
  /\ last' = NoCall
  /\ UNCHANGED <<cfg, ip_attempts, account_attempts, last_cleanup, calls, th>>

(* ----------------------- specification --------------------------------- *)
EmptyMap == [k \in {} |-> LockoutStatus]

\* a thread that is not inside a call
Idle ==
  [pc |-> "idle", ip |-> "", email |-> "", success |-> FALSE, current_time |-> 0,
   prune_time |-> 0, kept |-> <<>>, lockout_duration |-> 0]

InitWith(configs) ==
  /\ cfg \in configs
  /\ now = StartTime
  /\ ip_attempts = EmptyMap
  /\ account_attempts = EmptyMap
  /\ last_cleanup = StartTime
  /\ calls = 0
  /\ th = [t \in Threads |-> Idle]
  /\ last = NoCall

Init == InitWith(Configs)

\* the calls a login handler and the admin tooling make, on the given keys
NextOn(ips, emails, maxTime, maxCalls) ==
  \/ Tick(maxTime)
  \/ /\ calls < maxCalls
     /\ \E ip \in ips, email \in emails, success \in BOOLEAN :
          RecordAttempt(ip, email, success)
  \/ \E ip \in ips : IsIpLocked(ip)
  \/ \E email \in emails : IsAccountLocked(email)
  \/ \E ip \in ips \cup {""}, email \in emails \cup {""} : GetStatus(ip, email)
  \/ \E ip \in ips : ResetIp(ip)
  \/ \E email \in emails : ResetAccount(email)

Next == NextOn(OneIP, OneEmail, MaxTime, MaxCalls)

Spec == Init /\ [][Next]_vars

NextKeys == NextOn(IPs, Emails, MaxTimeKeys, MaxCallsKeys)

InitKeys == InitWith(ConfigsKeys)

SpecKeys == InitKeys /\ [][NextKeys]_vars

(* ----------------------- the empty string as a key --------------------- *)
\* The engine called with the empty string as address and as account, next to
\* an ordinary address.
IPsWithEmpty == {"", "1.2.3.4"}
EmailsWithEmpty == {""}

NextEmptyKey == NextOn(IPsWithEmpty, EmailsWithEmpty, MaxTimeKeys, MaxCallsKeys)

SpecEmptyKey == InitKeys /\ [][NextEmptyKey]_vars

(* ----------------------- the lockout calculator on its own ------------- *)
\* _calculate_lockout_duration applied to every lockout_count up to
\* MaxLockoutCount under every base, maximum and backoff switch in range.
CalcConfigs ==
  { Config(2, b, x, mx, 1, 1) : b \in 1..MaxBase, x \in BOOLEAN, mx \in 1..MaxCap }

\* one call; the result record also carries the argument
Calculate(lockout_count) ==
  /\ last' = [lockout_count |-> lockout_count]
             @@ [NoCall EXCEPT !.op = "_calculate_lockout_duration", !.t = now,
                               !.lockout_duration =
                                  CalculateLockoutDuration(lockout_count)]
  /\ UNCHANGED <<cfg, now, ip_attempts, account_attempts, last_cleanup, calls, th>>

InitCalc == InitWith(CalcConfigs)

NextCalc == \E lockout_count \in 0..MaxLockoutCount : Calculate(lockout_count)

SpecCalc == InitCalc /\ [][NextCalc]_vars

(* ----------------------- the window pruner on its own ------------------ *)
\* _prune_old_attempts applied at any clock reading to any history the
\* recorder can have built: at most MaxHistory records, time-ordered, none
\* from the future.
Histories(t) ==
  UNION { { h \in [1..n -> [timestamp : StartTime..t, success : BOOLEAN]] :
              \A i \in 1..(n - 1) : h[i].timestamp <= h[i + 1].timestamp }
          : n \in 0..MaxHistory }

\* a history as the recorder stores it, for the one address and account
Recorded(h) ==
  [i \in 1..Len(h) |-> LoginAttempt(h[i].timestamp, h[i].success, "1.2.3.4", "a@b.com")]

InitPrune ==
  /\ cfg \in ConfigsKeys
  /\ now \in StartTime..MaxTime
  /\ \E h \in Histories(now) :
       ip_attempts = [k \in OneIP |-> [LockoutStatus EXCEPT !.attempts = Recorded(h)]]
  /\ account_attempts = EmptyMap
  /\ last_cleanup = StartTime
  /\ calls = 0
  /\ th = [t \in Threads |-> Idle]
  /\ last = NoCall

\* one call on the address's status; the result record keeps the history given
Prune(ip) ==
  /\ ip_attempts' = [ip_attempts EXCEPT ![ip] = PruneOldAttempts(@, now)]
  /\ last' = [NoCall EXCEPT !.op = "_prune_old_attempts", !.ip = ip, !.t = now,
                            !.status = ip_attempts[ip].attempts]
  /\ UNCHANGED <<cfg, now, account_attempts, last_cleanup, calls, th>>

NextPrune == \E ip \in OneIP : Prune(ip)

SpecPrune == InitPrune /\ [][NextPrune]_vars

(* ----------------------- the concrete scenario ------------------------- *)
\* Three attempts for one address and one account during the first 5 seconds,
\* lock checks of the address at any time up to 11 seconds after the last one.
ScenarioAttemptsEnd == StartTime + Secs(5)
ScenarioHorizon == ScenarioAttemptsEnd + Secs(11)

InitScenario == InitWith({ScenarioConfig})

NextScenario ==
  \/ Tick(ScenarioHorizon)
  \/ /\ calls < 3
     /\ now <= ScenarioAttemptsEnd
     /\ \E ip \in OneIP, email \in OneEmail, success \in BOOLEAN :
          RecordAttempt(ip, email, success)
  \/ \E ip \in OneIP : IsIpLocked(ip)

SpecScenario == InitScenario /\ [][NextScenario]_vars

(* ----------------------- record_attempt, statement by statement -------- *)
\* Threads run record_attempt with no lock around it; a step is one statement
\* of lines 215-292 (or of _prune_old_attempts, lines 134-146), named by its
\* line.  Statements that touch only locals ride with the statement before
\* them.  No entry is deleted while threads run, so the local references
\* ip_status / account_status are the keys th[t].ip / th[t].email.  The calls
\* of one burst all read the same clock value: no call waits or blocks.
\* returning (pc "idle") drops the locals
Goto(t, pc) == th' = [th EXCEPT ![t] = IF pc = "idle" THEN Idle ELSE [@ EXCEPT !.pc = pc]]

ThreadFrame == UNCHANGED <<cfg, now, last_cleanup, last>>

At(t, pc) == th[t].pc = pc

\* lines 215-221: read the clock, build the attempt
Call(t, ip, email, success) ==
  /\ At(t, "idle")
  /\ calls < MaxCallsConc
  /\ calls' = calls + 1
  /\ th' = [th EXCEPT ![t] = [Idle EXCEPT !.pc = "224", !.ip = ip, !.email = email,
                                          !.success = success, !.current_time = now]]
  /\ UNCHANGED <<ip_attempts, account_attempts>>
  /\ ThreadFrame

\* what the thread's local ip_status / account_status refers to
IpStatus(t) == GetOrCreate(ip_attempts, th[t].ip)
AccountStatus(t) == GetOrCreate(account_attempts, th[t].email)

\* the statement at `pc` leaves the address status as `status` and goes to `next`
IpStmt(t, pc, status, next) ==
  /\ At(t, pc)
  /\ ip_attempts' = Put(ip_attempts, th[t].ip, status)
  /\ Goto(t, next)
  /\ UNCHANGED <<account_attempts, calls>>
  /\ ThreadFrame

AccountStmt(t, pc, status, next) ==
  /\ At(t, pc)
  /\ account_attempts' = Put(account_attempts, th[t].email, status)
  /\ Goto(t, next)
  /\ UNCHANGED <<ip_attempts, calls>>
  /\ ThreadFrame

\* a test or a read: shared state stays, the thread's locals become `locals`
LocalStmt(t, pc, locals) ==
  /\ At(t, pc)
  /\ th' = [th EXCEPT ![t] = locals]
  /\ UNCHANGED <<ip_attempts, account_attempts, calls>>
  /\ ThreadFrame

ThreadAttempt(t) ==
  LoginAttempt(th[t].current_time, th[t].success, th[t].ip, th[t].email)

\* line 224: ip_status = self.ip_attempts[ip_address]
L224(t) == IpStmt(t, "224", IpStatus(t), "225")
\* line 225: ip_status.attempts.append(attempt)
L225(t) == IpStmt(t, "225", [IpStatus(t) EXCEPT !.attempts = Append(@, ThreadAttempt(t))],
                  "226")
\* line 226: ip_status.last_attempt_time = current_time
L226(t) == IpStmt(t, "226", [IpStatus(t) EXCEPT !.last_attempt_time = th[t].current_time],
                  "228")
\* line 228: if not ip_status.first_attempt_time
L228(t) ==
  LocalStmt(t, "228",
            [th[t] EXCEPT !.pc = IF ip_attempts[th[t].ip].first_attempt_time = None
                                 THEN "229" ELSE "232"])
\* line 229: ip_status.first_attempt_time = current_time
L229(t) == IpStmt(t, "229", [IpStatus(t) EXCEPT !.first_attempt_time = th[t].current_time],
                  "232")
\* lines 232-237: the same for the account
L232(t) == AccountStmt(t, "232", AccountStatus(t), "233")
L233(t) == AccountStmt(t, "233",
                       [AccountStatus(t) EXCEPT !.attempts = Append(@, ThreadAttempt(t))],
                       "234")
L234(t) == AccountStmt(t, "234",
                       [AccountStatus(t) EXCEPT !.last_attempt_time = th[t].current_time],
                       "236")
L236(t) ==
  LocalStmt(t, "236",
            [th[t] EXCEPT !.pc = IF account_attempts[th[t].email].first_attempt_time = None
                                 THEN "237" ELSE "240"])
L237(t) == AccountStmt(t, "237",
                       [AccountStatus(t) EXCEPT !.first_attempt_time = th[t].current_time],
                       "240")
\* line 240: if success
L240(t) == LocalStmt(t, "240", [th[t] EXCEPT !.pc = IF th[t].success THEN "241" ELSE "250"])
\* lines 241-247: reset the counters and return
L241(t) == IpStmt(t, "241", [IpStatus(t) EXCEPT !.failed_attempts = 0], "242")
L242(t) == AccountStmt(t, "242", [AccountStatus(t) EXCEPT !.failed_attempts = 0], "idle")
\* line 250: _prune_old_attempts(ip_status) -- lines 134-135, 137-140, 143-146
L250(t) == LocalStmt(t, "250", [th[t] EXCEPT !.pc = "250.137", !.prune_time = now])
\* lines 137-140: the list comprehension builds the new list from the history
\* as it is now; the assignment to status.attempts is a later step
L250_137(t) ==
  LocalStmt(t, "250.137",
            [th[t] EXCEPT !.pc = "250.137w",
                          !.kept = PruneOldAttempts(IpStatus(t), th[t].prune_time).attempts])
L250_137w(t) ==
  /\ At(t, "250.137w")
  /\ ip_attempts' = Put(ip_attempts, th[t].ip, [IpStatus(t) EXCEPT !.attempts = th[t].kept])
  /\ th' = [th EXCEPT ![t] = [@ EXCEPT !.pc = "250.143", !.kept = <<>>]]
  /\ UNCHANGED <<account_attempts, calls>>
  /\ ThreadFrame
L250_143(t) ==
  IpStmt(t, "250.143", [IpStatus(t) EXCEPT !.failed_attempts = CountFailed(IpStatus(t).attempts)],
         "251")
\* line 251: _prune_old_attempts(account_status)
L251(t) == LocalStmt(t, "251", [th[t] EXCEPT !.pc = "251.137", !.prune_time = now])
L251_137(t) ==
  LocalStmt(t, "251.137",
            [th[t] EXCEPT !.pc = "251.137w",
                          !.kept = PruneOldAttempts(AccountStatus(t), th[t].prune_time).attempts])
L251_137w(t) ==
  /\ At(t, "251.137w")
  /\ account_attempts' =
       Put(account_attempts, th[t].email, [AccountStatus(t) EXCEPT !.attempts = th[t].kept])
  /\ th' = [th EXCEPT ![t] = [@ EXCEPT !.pc = "251.143", !.kept = <<>>]]
  /\ UNCHANGED <<ip_attempts, calls>>
  /\ ThreadFrame
L251_143(t) ==
  AccountStmt(t, "251.143",
              [AccountStatus(t) EXCEPT !.failed_attempts = CountFailed(AccountStatus(t).attempts)], "254")
\* lines 254, 255: failed_attempts += 1
L254(t) == IpStmt(t, "254", [IpStatus(t) EXCEPT !.failed_attempts = @ + 1], "255")
L255(t) == AccountStmt(t, "255", [AccountStatus(t) EXCEPT !.failed_attempts = @ + 1], "267")
\* line 267: if ip_status.failed_attempts >= self.max_attempts
L267(t) ==
  LocalStmt(t, "267",
            [th[t] EXCEPT !.pc = IF Threshold(ip_attempts[th[t].ip]) THEN "268" ELSE "277"])
\* line 268: lockout_duration = self._calculate_lockout_duration(ip_status.lockout_count)
L268(t) ==
  LocalStmt(t, "268",
            [th[t] EXCEPT !.pc = "269",
                          !.lockout_duration =
                             CalculateLockoutDuration(ip_attempts[th[t].ip].lockout_count)])
\* line 269: ip_status.locked_until = current_time + lockout_duration
L269(t) ==
  IpStmt(t, "269",
         [IpStatus(t) EXCEPT
                        !.locked_until = th[t].current_time + Secs(th[t].lockout_duration)],
         "270")
\* line 270: ip_status.lockout_count += 1
L270(t) == IpStmt(t, "270", [IpStatus(t) EXCEPT !.lockout_count = @ + 1], "277")
\* lines 277-280: the same for the account, then return
L277(t) ==
  LocalStmt(t, "277",
            IF Threshold(account_attempts[th[t].email])
            THEN [th[t] EXCEPT !.pc = "278"] ELSE Idle)
L278(t) ==
  LocalStmt(t, "278",
            [th[t] EXCEPT
               !.pc = "279",
               !.lockout_duration =
                  CalculateLockoutDuration(account_attempts[th[t].email].lockout_count)])
L279(t) ==
  AccountStmt(t, "279",
              [AccountStatus(t) EXCEPT
                             !.locked_until =
                                th[t].current_time + Secs(th[t].lockout_duration)],
              "280")
L280(t) == AccountStmt(t, "280", [AccountStatus(t) EXCEPT !.lockout_count = @ + 1], "idle")

InitConc == InitWith(ConfigsConc)

NextConc ==
  \/ \E t \in Threads, ip \in OneIP, email \in OneEmail, success \in BOOLEAN :
       Call(t, ip, email, success)
  \/ \E t \in Threads : L224(t)
  \/ \E t \in Threads : L225(t)
  \/ \E t \in Threads : L226(t)
  \/ \E t \in Threads : L228(t)
  \/ \E t \in Threads : L229(t)
  \/ \E t \in Threads : L232(t)
  \/ \E t \in Threads : L233(t)
  \/ \E t \in Threads : L234(t)
  \/ \E t \in Threads : L236(t)
  \/ \E t \in Threads : L237(t)
  \/ \E t \in Threads : L240(t)
  \/ \E t \in Threads : L241(t)
  \/ \E t \in Threads : L242(t)
  \/ \E t \in Threads : L250(t)
  \/ \E t \in Threads : L250_137(t)
  \/ \E t \in Threads : L250_137w(t)
  \/ \E t \in Threads : L250_143(t)
  \/ \E t \in Threads : L251(t)
  \/ \E t \in Threads : L251_137(t)
  \/ \E t \in Threads : L251_137w(t)
  \/ \E t \in Threads : L251_143(t)
  \/ \E t \in Threads : L254(t)
  \/ \E t \in Threads : L255(t)
  \/ \E t \in Threads : L267(t)
  \/ \E t \in Threads : L268(t)
  \/ \E t \in Threads : L269(t)
  \/ \E t \in Threads : L270(t)
  \/ \E t \in Threads : L277(t)
  \/ \E t \in Threads : L278(t)
  \/ \E t \in Threads : L279(t)
  \/ \E t \in Threads : L280(t)

SpecConc == InitConc /\ [][NextConc]_vars

(* ----------------------- _cleanup_old_data, statement by statement ----- *)
\* Threads run is_ip_locked with no lock around it while record_attempt and
\* the resets run on other threads.  In this specification th[t] is the frame
\* of the sweep the lock check starts with: a step is one statement of lines
\* 101-130, a `for` loop taking one step per iteration.  A dict iterator
\* remembers the size of the dict when it was created and raises
\* RuntimeError on the next iteration once the size differs; `del` of a
\* missing key raises KeyError.  The exception ends the call.
SweepIdle ==
  [pc |-> "idle", ip |-> "", current_time |-> 0, todo |-> {}, used |-> 0,
   to_remove |-> {}, error |-> "None"]

SweepFrame == UNCHANGED <<cfg, now, calls>>

\* the sweep's statement at `pc` leaves the thread's frame as `frame`
SweepStmt(t, pc, frame) ==
  /\ th[t].pc = pc
  /\ th' = [th EXCEPT ![t] = frame]
  /\ SweepFrame

Raise(t, error) == [th[t] EXCEPT !.pc = "error", !.error = error]

\* lines 112-114 / 123-124 for one entry
Eligible(status, t) ==
  /\ status.locked_until # None /\ status.locked_until < t
  /\ \/ status.attempts = <<>>
     \/ MaxTimestamp(status.attempts) < t - Secs(cfg.window_duration)

\* one iteration of `for key, status in map.items()`, going to `done` at the end
Iterate(t, map, done) ==
  IF Cardinality(DOMAIN map) # th[t].used THEN Raise(t, "RuntimeError")
  ELSE IF th[t].todo \cap DOMAIN map = {} THEN [th[t] EXCEPT !.pc = done]
  ELSE LET k == CHOOSE k \in th[t].todo \cap DOMAIN map : TRUE IN
       [th[t] EXCEPT !.todo = @ \ {k},
                     !.to_remove = IF Eligible(map[k], th[t].current_time)
                                   THEN @ \cup {k} ELSE @]

\* is_ip_locked(ip) is called: line 158 enters _cleanup_old_data, line 101
S101(t, ip) ==
  /\ SweepStmt(t, "idle", [SweepIdle EXCEPT !.pc = "104", !.ip = ip, !.current_time = now])
  /\ UNCHANGED <<ip_attempts, account_attempts, last_cleanup, last>>
\* line 104: if current_time - self.last_cleanup < self.cleanup_interval: return
S104(t) ==
  /\ SweepStmt(t, "104",
               [th[t] EXCEPT !.pc = IF th[t].current_time - last_cleanup
                                         < Secs(cfg.cleanup_interval)
                                    THEN "160" ELSE "111"])
  /\ UNCHANGED <<ip_attempts, account_attempts, last_cleanup, last>>
\* lines 110-111: ips_to_remove = []; the loop's iterator is created
S111(t) ==
  /\ SweepStmt(t, "111",
               [th[t] EXCEPT !.pc = "112", !.todo = DOMAIN ip_attempts,
                             !.used = Cardinality(DOMAIN ip_attempts), !.to_remove = {}])
  /\ UNCHANGED <<ip_attempts, account_attempts, last_cleanup, last>>
\* lines 111-115: one iteration over self.ip_attempts.items()
S112(t) ==
  /\ SweepStmt(t, "112", Iterate(t, ip_attempts, "117"))
  /\ UNCHANGED <<ip_attempts, account_attempts, last_cleanup, last>>
\* lines 117-118: for ip in ips_to_remove: del self.ip_attempts[ip]
S117(t) ==
  /\ th[t].pc = "117"
  /\ SweepFrame
  /\ UNCHANGED <<account_attempts, last_cleanup, last>>
  /\ IF th[t].to_remove = {}
     THEN th' = [th EXCEPT ![t].pc = "122"] /\ UNCHANGED ip_attempts
     ELSE \E k \in th[t].to_remove :
            IF k \in DOMAIN ip_attempts
            THEN /\ ip_attempts' = Del(ip_attempts, {k})
                 /\ th' = [th EXCEPT ![t].to_remove = @ \ {k}]
            ELSE /\ th' = [th EXCEPT ![t] = Raise(t, "KeyError")]
                 /\ UNCHANGED ip_attempts
\* lines 121-122: accounts_to_remove = []; the loop's iterator is created
S122(t) ==
  /\ SweepStmt(t, "122",
               [th[t] EXCEPT !.pc = "123", !.todo = DOMAIN account_attempts,
                             !.used = Cardinality(DOMAIN account_attempts),
                             !.to_remove = {}])
  /\ UNCHANGED <<ip_attempts, account_attempts, last_cleanup, last>>
\* lines 122-125: one iteration over self.account_attempts.items()
S123(t) ==
  /\ SweepStmt(t, "123", Iterate(t, account_attempts, "127"))
  /\ UNCHANGED <<ip_attempts, account_attempts, last_cleanup, last>>
\* lines 127-128: for email in accounts_to_remove: del self.account_attempts[email]
S127(t) ==
  /\ th[t].pc = "127"
  /\ SweepFrame
  /\ UNCHANGED <<ip_attempts, last_cleanup, last>>
  /\ IF th[t].to_remove = {}
     THEN th' = [th EXCEPT ![t].pc = "130"] /\ UNCHANGED account_attempts
     ELSE \E k \in th[t].to_remove :
            IF k \in DOMAIN account_attempts
            THEN /\ account_attempts' = Del(account_attempts, {k})
                 /\ th' = [th EXCEPT ![t].to_remove = @ \ {k}]
            ELSE /\ th' = [th EXCEPT ![t] = Raise(t, "KeyError")]
                 /\ UNCHANGED account_attempts
\* line 130: self.last_cleanup = current_time
S130(t) ==
  /\ SweepStmt(t, "130", [th[t] EXCEPT !.pc = "160"])
  /\ last_cleanup' = th[t].current_time
  /\ UNCHANGED <<ip_attempts, account_attempts, last>>
\* lines 160-171: the lock check itself, and the return
S160(t) ==
  LET r == LockCheck(ip_attempts, th[t].ip, now) IN
  /\ SweepStmt(t, "160", SweepIdle)
  /\ ip_attempts' = r[1]
  /\ last' = [NoCall EXCEPT !.op = "is_ip_locked", !.ip = th[t].ip, !.t = now,
                            !.locked = r[2], !.remaining = r[3]]
  /\ UNCHANGED <<account_attempts, last_cleanup>>

InitSweep ==
  /\ cfg \in ConfigsConc
  /\ now = StartTime
  /\ ip_attempts = EmptyMap
  /\ account_attempts = EmptyMap
  /\ last_cleanup = StartTime
  /\ calls = 0
  /\ th = [t \in Threads |-> SweepIdle]
  /\ last = NoCall

NextSweep ==
  \/ Tick(MaxTime)
  \/ /\ calls < MaxCallsKeys
     /\ \E ip \in OneIP, email \in OneEmail : RecordAttempt(ip, email, FALSE)
  \/ \E ip \in OneIP : ResetIp(ip)
  \/ \E email \in OneEmail : ResetAccount(email)
  \/ \E t \in Threads, ip \in OneIP : S101(t, ip)
  \/ \E t \in Threads : S104(t)
  \/ \E t \in Threads : S111(t)
  \/ \E t \in Threads : S112(t)
  \/ \E t \in Threads : S117(t)
  \/ \E t \in Threads : S122(t)
  \/ \E t \in Threads : S123(t)
  \/ \E t \in Threads : S127(t)
  \/ \E t \in Threads : S130(t)
  \/ \E t \in Threads : S160(t)

SpecSweep == InitSweep /\ [][NextSweep]_vars

(* ----------------------- api.py: the login handler --------------------- *)
\* POST /auth/login: _perform_login as a coroutine, one step per statement.
\* In this specification th[t] is the handler's frame: its position, the form
\* fields, the user found, the calls it has made so far on the database, the
\* password verifier and the lockout engine, and the HTTP status it answered.
LoginEmails == {"", "a@b.com", "A@B.COM", "c@d.com"}
Passwords == {"", "secret", "wrong"}

\* bcrypt hash of a password, and bcrypt.checkpw
HashPassword(password) == <<"bcrypt", password>>
VerifyPassword(plain_password, hashed_password) ==
  hashed_password = HashPassword(plain_password)

\* email.lower()
Lower(email) == IF email = "A@B.COM" THEN "a@b.com" ELSE email

\* the users collection: one active member
NoUser == [email |-> "", password_hash |-> <<>>, is_active |-> FALSE, role |-> ""]
Users ==
  { [email |-> "a@b.com", password_hash |-> HashPassword("secret"),
     is_active |-> TRUE, role |-> "member"] }

\* db.get_user_by_email: User.find_one(User.email == email.lower())
GetUserByEmail(email) ==
  IF \E u \in Users : u.email = Lower(email)
  THEN CHOOSE u \in Users : u.email = Lower(email)
  ELSE NoUser

HandlerIdle ==
  [pc |-> "idle", ip |-> "", email |-> "", password |-> "", user |-> NoUser,
   trace |-> <<>>, status_code |-> 0]

HandlerFrame ==
  UNCHANGED <<cfg, now, ip_attempts, account_attempts, last_cleanup, last>>

\* a request arrives: login(request, response, email, password)
Login(t, ip, email, password) ==
  /\ th[t].pc \in {"idle", "done"}
  /\ calls < MaxRequests
  /\ calls' = calls + 1
  /\ th' = [th EXCEPT ![t] = [HandlerIdle EXCEPT !.pc = "284", !.ip = ip,
                                                 !.email = email, !.password = password]]
  /\ HandlerFrame

\* the handler's statement at `pc` leaves its frame as `frame`
HandlerStmt(t, pc, frame) ==
  /\ th[t].pc = pc
  /\ th' = [th EXCEPT ![t] = frame]
  /\ UNCHANGED calls
  /\ HandlerFrame

\* raise HTTPException(status_code=code) / return the token response (200)
Answer(t, code) == [th[t] EXCEPT !.pc = "done", !.status_code = code]

\* line 284: if not email or not password
P284(t) ==
  HandlerStmt(t, "284",
              IF th[t].email = "" \/ th[t].password = ""
              THEN Answer(t, 400) ELSE [th[t] EXCEPT !.pc = "288"])
\* line 288: user = await db.get_user_by_email(email)
P288(t) ==
  HandlerStmt(t, "288",
              [th[t] EXCEPT !.pc = "289", !.user = GetUserByEmail(th[t].email),
                            !.trace = Append(@, "get_user_by_email")])
\* line 289: if not user
P289(t) ==
  HandlerStmt(t, "289",
              IF th[t].user = NoUser THEN Answer(t, 401) ELSE [th[t] EXCEPT !.pc = "293"])
\* line 293: if not verify_password(password, user.password_hash)
P293(t) ==
  HandlerStmt(t, "293",
              LET called == [th[t] EXCEPT !.trace = Append(@, "verify_password")] IN
              IF ~VerifyPassword(th[t].password, th[t].user.password_hash)
              THEN [called EXCEPT !.pc = "done", !.status_code = 401]
              ELSE [called EXCEPT !.pc = "297"])
\* lines 297-305: if not user.is_active; expected_role is None for this endpoint
P297(t) ==
  HandlerStmt(t, "297",
              IF ~th[t].user.is_active THEN Answer(t, 401) ELSE [th[t] EXCEPT !.pc = "308"])
\* lines 308-332 and 338-347: create the tokens, return the result
P308(t) == HandlerStmt(t, "308", Answer(t, 200))

InitLogin ==
  /\ cfg \in ConfigsConc
  /\ now = StartTime
  /\ ip_attempts = EmptyMap
  /\ account_attempts = EmptyMap
  /\ last_cleanup = StartTime
  /\ calls = 0
  /\ th = [t \in Threads |-> HandlerIdle]
  /\ last = NoCall

NextLogin ==
  \/ \E t \in Threads, ip \in OneIP, email \in LoginEmails, password \in Passwords :
       Login(t, ip, email, password)
  \/ \E t \in Threads : P284(t)
  \/ \E t \in Threads : P288(t)
  \/ \E t \in Threads : P289(t)
  \/ \E t \in Threads : P293(t)
  \/ \E t \in Threads : P297(t)
  \/ \E t \in Threads : P308(t)

SpecLogin == InitLogin /\ [][NextLogin]_vars

(* ----------------------- a window longer than the lock ----------------- *)
\* window_duration = 2 s, lockout_duration = 1 s: a lock lapses while the
\* failures that caused it are still counted
ConfigsRelock == { Config(m, 1, TRUE, 3, 2, 1) : m \in {2, 3} }

InitRelock == InitWith(ConfigsRelock)

SpecRelock == InitRelock /\ [][Next]_vars

(***************************************************************************)
(* Vocabulary of the properties                                            *)
(***************************************************************************)
\* number of failed records of a history that lie inside the window at time t
InWindowFailures(attempts, t) ==
  Cardinality({ i \in 1..Len(attempts) :
                  ~attempts[i].success
                  /\ attempts[i].timestamp > t - Secs(cfg.window_duration) })

\* the history ends with n failed records that lie within one window
EndsWithFailures(attempts, n) ==
  /\ Len(attempts) >= n
  /\ \A i \in (Len(attempts) - n + 1)..Len(attempts) :
        /\ ~attempts[i].success
        /\ attempts[i].timestamp
             > attempts[Len(attempts)].timestamp - Secs(cfg.window_duration)

\* the documented backoff sequence b, min(2b, M), min(4b, M), ... (seconds)
BackoffTerm(i) ==
  IF i = 0 THEN cfg.lockout_duration
  ELSE Min(cfg.lockout_duration * (2 ^ i), cfg.max_lockout_duration)

\* the duration of the (i+1)-th lock of a key under the configuration
DocumentedDuration(i) ==
  IF cfg.exponential_backoff THEN BackoffTerm(i) ELSE cfg.lockout_duration

\* the step is a call of the named operation (the clock stands still in a call)
CallStep(op) == now' = now /\ last'.op = op /\ last'.t = now

RecordStep(ip, email) ==
  /\ calls' = calls + 1
  /\ last'.ip = ip
  /\ last'.email = email

(***************************************************************************)
(* C1  Threshold property: after max_attempts consecutive failed attempts  *)
(* of one address inside one window, is_ip_locked for that address, called *)
(* before the lock lapses, returns (true, d) with 0 < d <= the duration    *)
(* most recently imposed on the address.                                   *)
(***************************************************************************)
C1_Threshold ==
  \A ip \in IPs :
    ( /\ last.op = "is_ip_locked"
      /\ last.ip = ip
      /\ ip \in DOMAIN ip_attempts
      /\ EndsWithFailures(ip_attempts[ip].attempts, cfg.max_attempts) )
    => LET st == ip_attempts[ip]
           h == st.attempts
           d == DocumentedDuration(st.lockout_count - 1)
       IN /\ st.lockout_count >= 1
          /\ last.t < h[Len(h)].timestamp + Secs(d)
               => /\ last.locked
                  /\ 0 < last.remaining
                  /\ last.remaining <= d

(***************************************************************************)
(* C2  No premature lock: a failed record_attempt locks a key only if the  *)
(* key's history, pruned to the window and counting the attempt just       *)
(* recorded, holds at least max_attempts failed records.                   *)
(***************************************************************************)
C2_NoPrematureLock ==
  (last.op = "record_attempt" /\ ~last.success)
  => /\ last.ip_locked
          => InWindowFailures(ip_attempts[last.ip].attempts, last.t) >= cfg.max_attempts
     /\ last.account_locked
          => InWindowFailures(account_attempts[last.email].attempts, last.t)
               >= cfg.max_attempts

(***************************************************************************)
(* C3  Sliding window: for max_attempts >= 2, a key whose history holds    *)
(* max_attempts - 1 failed attempts, all older than the window, is not     *)
(* locked by one new failed attempt: its locked_until stays unset.         *)
(***************************************************************************)
OnlyOldFailures(status, t) ==
  /\ status.locked_until = None
  /\ CountFailed(status.attempts) = cfg.max_attempts - 1
  /\ \A i \in 1..Len(status.attempts) :
        /\ ~status.attempts[i].success
        /\ status.attempts[i].timestamp + Secs(cfg.window_duration) < t

C3_SlidingWindow ==
  [][ \A ip \in IPs, email \in Emails :
        ( /\ RecordStep(ip, email)
          /\ ~last'.success
          /\ cfg.max_attempts >= 2 )
        => /\ (ip \in DOMAIN ip_attempts /\ OnlyOldFailures(ip_attempts[ip], now))
                => (~last'.ip_locked /\ ip_attempts'[ip].locked_until = None)
           /\ (email \in DOMAIN account_attempts
                 /\ OnlyOldFailures(account_attempts[email], now))
                => (~last'.account_locked
                      /\ account_attempts'[email].locked_until = None) ]_vars

(***************************************************************************)
(* C4  Backoff sequence, with exponential backoff enabled: the n-th lock   *)
(* imposed on a key since its entry was created lasts the n-th term of     *)
(* b, min(2b, M), min(4b, M), ...; original statement: for any b and M the *)
(* sequence is non-decreasing and no term exceeds M.                       *)
(***************************************************************************)
\* the lock a failed record_attempt has just imposed on `status` follows the
\* documented sequence; `bounded` adds the monotonicity and cap
FollowsBackoff(status, t, bounded) ==
  LET n == status.lockout_count IN
  /\ n >= 1
  /\ status.locked_until = t + Secs(BackoffTerm(n - 1))
  /\ bounded => /\ BackoffTerm(n - 1) <= cfg.max_lockout_duration
                /\ n >= 2 => BackoffTerm(n - 2) <= BackoffTerm(n - 1)

BackoffHolds(bounded) ==
  (last.op = "record_attempt" /\ cfg.exponential_backoff)
  => /\ last.ip_locked => FollowsBackoff(ip_attempts[last.ip], last.t, bounded)
     /\ last.account_locked
          => FollowsBackoff(account_attempts[last.email], last.t, bounded)

ExpiryOn(map, mapAfter, key) ==
  (key \in DOMAIN map /\ map[key].locked_until # None)
  => IF now >= map[key].locked_until
     THEN /\ ~last'.locked
          /\ last'.remaining = None
          /\ key \in DOMAIN mapAfter => mapAfter[key].locked_until = None
     ELSE /\ last'.locked
          /\ Secs(last'.remaining) = map[key].locked_until - now
          /\ key \in DOMAIN mapAfter
          /\ mapAfter[key] = map[key]

C5_LazyExpiry ==
  [][ /\ \A ip \in IPs :
           (CallStep("is_ip_locked") /\ last'.ip = ip)
           => ExpiryOn(ip_attempts, ip_attempts', ip)
      /\ \A email \in Emails :
           (CallStep("is_account_locked") /\ last'.email = email)
           => ExpiryOn(account_attempts, account_attempts', email) ]_vars

(***************************************************************************)
(* C6  Independence: record_attempt(a, e, _) changes the status of address *)
(* a and of account e only; and when the call locks one of the two keys,   *)
(* the other is locked by it only if its own in-window failure count has   *)
(* reached max_attempts.                                                   *)
(***************************************************************************)
FrameOf(map, mapAfter, key) ==
  /\ DOMAIN mapAfter = DOMAIN map \cup {key}
  /\ \A k \in DOMAIN map \ {key} : mapAfter[k] = map[k]

C6_Independence ==
  [][ \A ip \in IPs, email \in Emails :
        RecordStep(ip, email)
        => /\ FrameOf(ip_attempts, ip_attempts', ip)
           /\ FrameOf(account_attempts, account_attempts', email)
           /\ (last'.ip_locked /\ last'.account_locked)
                => /\ InWindowFailures(ip_attempts'[ip].attempts, now)
                        >= cfg.max_attempts
                   /\ InWindowFailures(account_attempts'[email].attempts, now)
                        >= cfg.max_attempts ]_vars

(***************************************************************************)
(* C7  Concrete scenario (max_attempts=3, lockout_duration=10,             *)
(* window_duration=60, backoff disabled): the third of three failed        *)
(* attempts for one address and account within 5 seconds returns           *)
(* locked=true, reason "both", duration 10; is_ip_locked right after it    *)
(* returns (true, r) with r <= 10; is_ip_locked 11 seconds after it        *)
(* returns (false, none).                                                  *)
(***************************************************************************)
\* the last record of the history is the third failed attempt of the same
\* address and account within 5 seconds
ThirdFailure(attempts, ip, email) ==
  LET n == Len(attempts) IN
  /\ n >= 3
  /\ \E i, j \in 1..n :
        /\ i < j /\ j < n
        /\ \A k \in {i, j, n} :
              /\ ~attempts[k].success
              /\ attempts[k].ip_address = ip
              /\ attempts[k].email = email
        /\ attempts[n].timestamp - attempts[i].timestamp <= Secs(5)

ScenarioAt(ip, email) ==
  /\ cfg = ScenarioConfig
  /\ ip \in DOMAIN ip_attempts
  /\ email \in DOMAIN account_attempts
  /\ ThirdFailure(ip_attempts[ip].attempts, ip, email)
  /\ ThirdFailure(account_attempts[email].attempts, ip, email)

ThirdCallTime(ip) == ip_attempts[ip].attempts[Len(ip_attempts[ip].attempts)].timestamp

C7_Scenario ==
  \A ip \in IPs, email \in Emails :
    ScenarioAt(ip, email)
    => /\ (last.op = "record_attempt" /\ last.ip = ip /\ last.email = email)
            => /\ last.locked
               /\ last.reason = "both"
               /\ last.lockout_duration = 10
       /\ (last.op = "is_ip_locked" /\ last.ip = ip
             /\ last.t - ThirdCallTime(ip) < Secs(1))
            => /\ last.locked
               /\ last.remaining <= 10
       /\ (last.op = "is_ip_locked" /\ last.ip = ip
             /\ last.t = ThirdCallTime(ip) + Secs(11))
            => /\ ~last.locked
               /\ last.remaining = None

\* the lock check made 11 seconds after the third failed attempt
C7_Witness ==
  \E ip \in IPs, email \in Emails :
    /\ ScenarioAt(ip, email)
    /\ calls = 3
    /\ last.op = "is_ip_locked"
    /\ last.ip = ip
    /\ last.t = ThirdCallTime(ip) + Secs(11)
    /\ ~last.locked
    /\ ip_attempts[ip].lockout_count = 2

(***************************************************************************)
(* C8  Administrative reset: after reset_ip(k) / reset_account(k) the key  *)
(* has no entry, so the lock check returns (false, none) at once, and the  *)
(* next failed attempt starts a history of its own with lockout_count 0;   *)
(* the first lock then imposed on the key lasts lockout_duration.          *)
(***************************************************************************)
FreshStart(map, mapAfter, key, locked) ==
  LET before == IF key \in DOMAIN map THEN map[key].lockout_count ELSE 0 IN
  /\ key \notin DOMAIN map
       => /\ Len(mapAfter[key].attempts) = 1
          /\ mapAfter[key].attempts[1].timestamp = now
          /\ mapAfter[key].first_attempt_time = now
          /\ mapAfter[key].lockout_count = IF locked THEN 1 ELSE 0
          /\ ~locked => mapAfter[key].locked_until = None
  /\ (before = 0 /\ locked)
       => mapAfter[key].locked_until = now + Secs(cfg.lockout_duration)

NotLocked(map, mapAfter, key) ==
  key \notin DOMAIN map
  => /\ ~last'.locked
     /\ last'.remaining = None
     /\ key \notin DOMAIN mapAfter

C8_Reset ==
  [][ /\ \A ip \in IPs :
           /\ (CallStep("reset_ip") /\ last'.ip = ip) => ip \notin DOMAIN ip_attempts'
           /\ (CallStep("is_ip_locked") /\ last'.ip = ip)
                => NotLocked(ip_attempts, ip_attempts', ip)
           /\ \A email \in Emails :
                (RecordStep(ip, email) /\ ~last'.success)
                => /\ FreshStart(ip_attempts, ip_attempts', ip, last'.ip_locked)
                   /\ FreshStart(account_attempts, account_attempts', email,
                                 last'.account_locked)
      /\ \A email \in Emails :
           /\ (CallStep("reset_account") /\ last'.email = email)
                => email \notin DOMAIN account_attempts'
           /\ (CallStep("is_account_locked") /\ last'.email = email)
                => NotLocked(account_attempts, account_attempts', email) ]_vars

\* an address reset while locked is locked again by a later failure, for the
\* base duration, while the account (not reset) has moved on in its backoff
C8_Witness ==
  /\ last.op = "record_attempt"
  /\ last.ip_locked
  /\ ip_attempts[last.ip].lockout_count = 1
  /\ Len(ip_attempts[last.ip].attempts) = 1
  /\ ip_attempts[last.ip].locked_until = last.t + Secs(cfg.lockout_duration)
  /\ account_attempts[last.email].lockout_count = 2
  /\ Len(account_attempts[last.email].attempts) = 2

(***************************************************************************)
(* C9  Garbage collection: when a lock check runs and cleanup_interval has *)
(* passed since the last sweep, every entry that has no active lock        *)
(* (locked_until unset or in the past) and no record newer than the window *)
(* is removed by that call.                                                *)
(***************************************************************************)
Collectable(status, t) ==
  /\ status.locked_until = None \/ status.locked_until < t
  /\ \A i \in 1..Len(status.attempts) :
        status.attempts[i].timestamp < t - Secs(cfg.window_duration)

C9_GarbageCollection ==
  [][ ( /\ CallStep("is_ip_locked") \/ CallStep("is_account_locked")
             \/ CallStep("get_status")
        /\ last'.swept )
      => /\ \A ip \in DOMAIN ip_attempts :
              Collectable(ip_attempts[ip], now) => ip \notin DOMAIN ip_attempts'
         /\ \A email \in DOMAIN account_attempts :
              Collectable(account_attempts[email], now)
                => email \notin DOMAIN account_attempts' ]_vars

(***************************************************************************)
(* C10  Per-key atomicity: with record_attempt calls running concurrently, *)
(* interleaved statement by statement, there is no state in which every    *)
(* call has returned, a key's history holds max_attempts failed attempts   *)
(* inside the window, and the key has not been locked.                     *)
(***************************************************************************)
NeverLocked(status) == status.locked_until = None /\ status.lockout_count = 0

LockedAtThreshold(map) ==
  \A k \in DOMAIN map :
    InWindowFailures(map[k].attempts, now) >= cfg.max_attempts => ~NeverLocked(map[k])

C10_Atomicity ==
  (\A t \in Threads : th[t].pc = "idle")
  => LockedAtThreshold(ip_attempts) /\ LockedAtThreshold(account_attempts)

(***************************************************************************)
(* C11  Handler gate protocol: in every login request the handler calls    *)
(* is_ip_locked and is_account_locked before it calls the credential       *)
(* verifier, and a request whose credentials were verified has been        *)
(* followed by record_attempt by the time the handler answers.             *)
(***************************************************************************)
\* every occurrence of call b in the trace has a call a before it
CalledBefore(trace, a, b) ==
  \A j \in 1..Len(trace) : trace[j] = b => \E i \in 1..(j - 1) : trace[i] = a

\* every occurrence of call a in the trace has a call b after it
CalledAfter(trace, a, b) ==
  \A i \in 1..Len(trace) : trace[i] = a => \E j \in (i + 1)..Len(trace) : trace[j] = b

C11_GateProtocol ==
  \A t \in Threads :
    /\ CalledBefore(th[t].trace, "is_ip_locked", "verify_password")
    /\ CalledBefore(th[t].trace, "is_account_locked", "verify_password")
    /\ th[t].pc = "done" => CalledAfter(th[t].trace, "verify_password", "record_attempt")

(***************************************************************************)
(* C12  Result aggregation of a failed record_attempt: locked is true iff  *)
(* the call imposed the address lock or the account lock; reason names     *)
(* exactly the locks it imposed ("ip", "account", "both", or none); the    *)
(* returned duration is the larger of the durations it imposed, 0 when it  *)
(* imposed none.                                                           *)
(***************************************************************************)
\* the call imposed a lock on the key: its lockout_count moved
Fired(map, mapAfter, key) ==
  mapAfter[key].lockout_count # GetOrCreate(map, key).lockout_count

\* seconds of the lock the call imposed on the key, 0 when it imposed none
ImposedDuration(map, mapAfter, key) ==
  IF Fired(map, mapAfter, key) THEN mapAfter[key].locked_until - now ELSE 0

C12_ResultAggregation ==
  [][ \A ip \in IPs, email \in Emails :
        (RecordStep(ip, email) /\ ~last'.success)
        => LET ipFired == Fired(ip_attempts, ip_attempts', ip)
               acFired == Fired(account_attempts, account_attempts', email)
           IN /\ last'.locked <=> (ipFired \/ acFired)
              /\ last'.ip_locked <=> ipFired
              /\ last'.account_locked <=> acFired
              /\ last'.reason = "both" <=> (ipFired /\ acFired)
              /\ last'.reason = "ip" <=> (ipFired /\ ~acFired)
              /\ last'.reason = "account" <=> (~ipFired /\ acFired)
              /\ last'.reason = "None" <=> (~ipFired /\ ~acFired)
              /\ Secs(last'.lockout_duration)
                   = Max(ImposedDuration(ip_attempts, ip_attempts', ip),
                         ImposedDuration(account_attempts, account_attempts', email))
     ]_vars

\* both locks fired and the address lock, imposed last on a longer backoff,
\* outlasts the account's: the result carries the address duration
C12_Witness ==
  /\ last.op = "record_attempt"
  /\ last.reason = "both"
  /\ ip_attempts[last.ip].locked_until > account_attempts[last.email].locked_until
  /\ Secs(last.lockout_duration) = ip_attempts[last.ip].locked_until - last.t

(***************************************************************************)
(* C13  get_status is a read-only snapshot: a get_status call removes no   *)
(* entry from either map, changes no entry's lockout_count or history, and *)
(* what it reports for a key (failed count, lock flag, lockout_count) is   *)
(* read from an entry that is still in the store when it returns.          *)
(***************************************************************************)
\* every entry is kept, with its lockout_count and its history
Preserved(map, mapAfter) ==
  \A k \in DOMAIN map :
    /\ k \in DOMAIN mapAfter
    /\ mapAfter[k].lockout_count = map[k].lockout_count
    /\ mapAfter[k].attempts = map[k].attempts

\* the reported entry <<failed_attempts, locked, seconds_remaining,
\* lockout_count>> describes the key's entry in the map
Reports(entry, map, key) ==
  entry # <<>>
  => /\ key \in DOMAIN map
     /\ entry[1] = map[key].failed_attempts
     /\ entry[2] <=> (map[key].locked_until # None /\ map[key].locked_until > now)
     /\ entry[4] = map[key].lockout_count

C13_GetStatusReadOnly ==
  [][ CallStep("get_status")
      => /\ Preserved(ip_attempts, ip_attempts')
         /\ Preserved(account_attempts, account_attempts')
         /\ Reports(last'.status.ip, ip_attempts', last'.ip)
         /\ Reports(last'.status.account, account_attempts', last'.email) ]_vars

(***************************************************************************)
(* C14  No special keys: the empty string is a key like any other.  An     *)
(* attempt recorded for address or account "" is appended to that key's    *)
(* entry, a reset of "" removes the entry, and get_status reports every    *)
(* key it is asked about that has an entry, "" included.  (No call raises: *)
(* every call of the model returns a value.)                               *)
(***************************************************************************)
\* the call recorded its attempt as the last record of the key's entry
Tracked(mapAfter, key) ==
  /\ key \in DOMAIN mapAfter
  /\ mapAfter[key].attempts # <<>>
  /\ mapAfter[key].attempts[Len(mapAfter[key].attempts)]
       = LoginAttempt(now, last'.success, last'.ip, last'.email)

\* get_status reports the key when the key has an entry
Reported(entry, map, key) == key \in DOMAIN map => entry # <<>>

C14_EmptyKeyOrdinary ==
  [][ /\ \A ip \in IPsWithEmpty, email \in EmailsWithEmpty :
           RecordStep(ip, email)
           => Tracked(ip_attempts', ip) /\ Tracked(account_attempts', email)
      /\ CallStep("reset_ip") => last'.ip \notin DOMAIN ip_attempts'
      /\ CallStep("reset_account") => last'.email \notin DOMAIN account_attempts'
      /\ CallStep("get_status")
           => /\ Reported(last'.status.ip, ip_attempts, last'.ip)
              /\ Reported(last'.status.account, account_attempts, last'.email) ]_vars

(***************************************************************************)
(* C15  Counter invariant: when a record_attempt call has returned, with   *)
(* success or failure, failed_attempts of the address and of the account   *)
(* it named equals the number of failed records in that key's history.     *)
(***************************************************************************)
CounterMatches(status) == status.failed_attempts = CountFailed(status.attempts)

C15_CounterInvariant ==
  last.op = "record_attempt"
  => /\ CounterMatches(ip_attempts[last.ip])
     /\ CounterMatches(account_attempts[last.email])

(***************************************************************************)
(* C16  Lockout calculator: for every lockout_count >= 0 the calculator    *)
(* returns lockout_duration when exponential backoff is off or the count   *)
(* is 0, and min(lockout_duration * 2^lockout_count, max_lockout_duration) *)
(* otherwise; the call changes nothing in the engine.                      *)
(***************************************************************************)
C16_Calculator ==
  [][ CallStep("_calculate_lockout_duration")
      => /\ last'.lockout_duration
              = IF ~cfg.exponential_backoff \/ last'.lockout_count = 0
                THEN cfg.lockout_duration
                ELSE Min(cfg.lockout_duration * (2 ^ last'.lockout_count),
                         cfg.max_lockout_duration)
         /\ UNCHANGED <<cfg, ip_attempts, account_attempts, last_cleanup>> ]_vars

\* the three cases: base at count 0, doubled below the cap, cut at the cap
C16_Witness ==
  /\ last.op = "_calculate_lockout_duration"
  /\ cfg.exponential_backoff
  /\ last.lockout_count = 2
  /\ cfg.lockout_duration * 2 < cfg.max_lockout_duration
  /\ cfg.lockout_duration * 4 > cfg.max_lockout_duration
  /\ last.lockout_duration = cfg.max_lockout_duration

(***************************************************************************)
(* C17  Success path: record_attempt with success=true appends the record  *)
(* to the history of the address and of the account, sets failed_attempts  *)
(* of both to 0, returns locked=false with duration 0, and leaves          *)
(* lockout_count, locked_until and the earlier records of both keys as     *)
(* they were.                                                              *)
(***************************************************************************)
SuccessOn(map, mapAfter, key) ==
  LET before == GetOrCreate(map, key)
      after == mapAfter[key]
  IN /\ after.attempts
          = Append(before.attempts, LoginAttempt(now, TRUE, last'.ip, last'.email))
     /\ after.failed_attempts = 0
     /\ after.lockout_count = before.lockout_count
     /\ after.locked_until = before.locked_until

C17_SuccessPath ==
  [][ \A ip \in IPs, email \in Emails :
        (RecordStep(ip, email) /\ last'.success)
        => /\ SuccessOn(ip_attempts, ip_attempts', ip)
           /\ SuccessOn(account_attempts, account_attempts', email)
           /\ ~last'.locked
           /\ last'.lockout_duration = 0 ]_vars

\* a successful login recorded while both keys are locked, after two locks
C17_Witness ==
  /\ last.op = "record_attempt"
  /\ last.success
  /\ ip_attempts[last.ip].locked_until # None
  /\ ip_attempts[last.ip].locked_until > last.t
  /\ ip_attempts[last.ip].lockout_count = 2
  /\ ip_attempts[last.ip].failed_attempts = 0
  /\ Len(ip_attempts[last.ip].attempts) = 3
  /\ account_attempts[last.email].lockout_count = 2

(***************************************************************************)
(* C18  Success returns the key to CLEAN: a lock check made right after a  *)
(* record_attempt with success=true returns (false, none) for the address  *)
(* and for the account of that call; and a key whose history holds a       *)
(* success is locked by a failed attempt only when at least max_attempts   *)
(* failures have been recorded after that success.                         *)
(***************************************************************************)
\* number of failed records after the last successful one
RECURSIVE FailuresSinceSuccess(_)
FailuresSinceSuccess(attempts) ==
  IF attempts = <<>> \/ attempts[Len(attempts)].success THEN 0
  ELSE 1 + FailuresSinceSuccess(SubSeq(attempts, 1, Len(attempts) - 1))

HasSuccess(attempts) == \E i \in 1..Len(attempts) : attempts[i].success

CleanAfterSuccess(status, locked) ==
  (locked /\ HasSuccess(status.attempts))
  => FailuresSinceSuccess(status.attempts) >= cfg.max_attempts

\* the state is the one a successful record_attempt has just left
AfterSuccess == last.op = "record_attempt" /\ last.success /\ last.t = now

C18_SuccessClean ==
  [][ /\ (AfterSuccess /\ CallStep("is_ip_locked") /\ last'.ip = last.ip)
           => (~last'.locked /\ last'.remaining = None)
      /\ (AfterSuccess /\ CallStep("is_account_locked") /\ last'.email = last.email)
           => (~last'.locked /\ last'.remaining = None)
      /\ \A ip \in IPs, email \in Emails :
           (RecordStep(ip, email) /\ ~last'.success)
           => /\ CleanAfterSuccess(ip_attempts'[ip], last'.ip_locked)
              /\ CleanAfterSuccess(account_attempts'[email], last'.account_locked) ]_vars

(***************************************************************************)
(* C19  lockout_count discipline: the lockout_count of a key that stays in *)
(* the store never decreases in any step; it changes only in a failed      *)
(* record_attempt that imposes a lock on the key, and every such call      *)
(* raises it by exactly 1.  Original statement: the lock-imposing call is  *)
(* always a transition of the key from not locked to locked.               *)
(***************************************************************************)
ActiveLock(status) == status.locked_until # None /\ status.locked_until > now

\* `imposes`: the step is a failed record_attempt naming the key that reports
\* the key's lock as imposed; `onlyNew`: imposing requires the key unlocked
CountDiscipline(map, mapAfter, key, imposes, onlyNew) ==
  LET before == GetOrCreate(map, key) IN
  key \in DOMAIN mapAfter
  => /\ mapAfter[key].lockout_count >= before.lockout_count
     /\ mapAfter[key].lockout_count # before.lockout_count => imposes
     /\ imposes => /\ mapAfter[key].lockout_count = before.lockout_count + 1
                   /\ mapAfter[key].locked_until > now
                   /\ onlyNew => ~ActiveLock(before)

DisciplineHolds(onlyNew) ==
  /\ \A ip \in IPs :
       CountDiscipline(ip_attempts, ip_attempts', ip,
                       /\ calls' = calls + 1
                       /\ last'.ip = ip
                       /\ last'.ip_locked,
                       onlyNew)
  /\ \A email \in Emails :
       CountDiscipline(account_attempts, account_attempts', email,
                       /\ calls' = calls + 1
                       /\ last'.email = email
                       /\ last'.account_locked,
                       onlyNew)

C19_LockoutCount_Original == [][DisciplineHolds(TRUE)]_vars

\* amended: a failed attempt on a key that is still locked imposes a new lock too
C19_LockoutCount == [][DisciplineHolds(FALSE)]_vars

\* a second lock imposed at the instant of the first, while the first is active
C19_Witness ==
  /\ last.op = "record_attempt"
  /\ last.ip_locked
  /\ ip_attempts[last.ip].lockout_count = 2
  /\ Len(ip_attempts[last.ip].attempts) = 2
  /\ ip_attempts[last.ip].attempts[1].timestamp = last.t
  /\ ip_attempts[last.ip].locked_until > last.t

(***************************************************************************)
(* C20  locked_until invariant: a locked_until set by record_attempt is    *)
(* later than the time of the call; and a lock check of a key (is_locked,  *)
(* or get_status naming the key) that finds the key's locked_until no      *)
(* longer in the future leaves the key with locked_until unset, or         *)
(* removed.  Original statement: the same holds for every key the cleanup  *)
(* sweep finds with locked_until in the past.                              *)
(***************************************************************************)
Expired(status) == status.locked_until # None /\ status.locked_until <= now

ClearedOrRemoved(mapAfter, key) ==
  key \in DOMAIN mapAfter => mapAfter[key].locked_until = None

\* record_attempt: a locked_until it writes lies after the call
SetInFuture(map, mapAfter, key) ==
  mapAfter[key].locked_until # GetOrCreate(map, key).locked_until
  => mapAfter[key].locked_until > now

\* the step is a lock check of the key, direct or through get_status
ChecksIp(ip) ==
  /\ CallStep("is_ip_locked") \/ CallStep("get_status")
  /\ last'.ip = ip

ChecksAccount(email) ==
  /\ CallStep("is_account_locked") \/ CallStep("get_status")
  /\ last'.email = email

\* every key the sweep of this step found with locked_until in the past
SweepClears(map, mapAfter) ==
  \A k \in DOMAIN map :
    (map[k].locked_until # None /\ map[k].locked_until < now)
    => ClearedOrRemoved(mapAfter, k)

LockedUntilHolds(sweepToo) ==
  /\ \A ip \in IPs, email \in Emails :
       RecordStep(ip, email)
       => /\ SetInFuture(ip_attempts, ip_attempts', ip)
          /\ SetInFuture(account_attempts, account_attempts', email)
  /\ \A ip \in IPs :
       (ChecksIp(ip) /\ ip \in DOMAIN ip_attempts /\ Expired(ip_attempts[ip]))
       => ClearedOrRemoved(ip_attempts', ip)
  /\ \A email \in Emails :
       (ChecksAccount(email) /\ email \in DOMAIN account_attempts
          /\ Expired(account_attempts[email]))
       => ClearedOrRemoved(account_attempts', email)
  /\ (sweepToo /\ now' = now /\ last'.swept)
       => /\ SweepClears(ip_attempts, ip_attempts')
          /\ SweepClears(account_attempts, account_attempts')

C20_LockedUntil_Original == [][LockedUntilHolds(TRUE)]_vars

\* amended: the sweep clears nothing; it removes an expired key or leaves it
C20_LockedUntil == [][LockedUntilHolds(FALSE)]_vars

\* a lock check of the address ran the sweep and cleared the address's lapsed
\* lock; the account, seen by the same sweep, keeps its lapsed locked_until
C20_Witness ==
  /\ last.op = "is_ip_locked"
  /\ last.swept
  /\ last.ip \in DOMAIN ip_attempts
  /\ ip_attempts[last.ip].locked_until = None
  /\ ip_attempts[last.ip].lockout_count >= 1
  /\ \E email \in DOMAIN account_attempts :
        /\ account_attempts[email].locked_until # None
        /\ account_attempts[email].locked_until < last.t

(***************************************************************************)
(* C21  Window pruner: _prune_old_attempts at time now removes exactly the *)
(* records with timestamp <= now - window_duration, keeps the others in    *)
(* their order, and sets failed_attempts to the number of failed records   *)
(* kept; after it the history holds no record older than the window.       *)
(***************************************************************************)
\* positions of the records of h newer than the cutoff
NewerThan(h, cutoff) == { i \in 1..Len(h) : h[i].timestamp > cutoff }

\* the j-th smallest element of a set of positions
Nth(positions, j) ==
  CHOOSE i \in positions : Cardinality({ k \in positions : k < i }) = j - 1

PrunedFrom(before, after, cutoff) ==
  LET keep == NewerThan(before.attempts, cutoff) IN
  /\ Len(after.attempts) = Cardinality(keep)
  /\ \A j \in 1..Len(after.attempts) : after.attempts[j] = before.attempts[Nth(keep, j)]
  /\ after.failed_attempts
       = Cardinality({ j \in 1..Len(after.attempts) : ~after.attempts[j].success })
  /\ \A j \in 1..Len(after.attempts) : after.attempts[j].timestamp > cutoff
  /\ after.lockout_count = before.lockout_count
  /\ after.locked_until = before.locked_until

C21_WindowPruner ==
  [][ \A ip \in OneIP :
        (CallStep("_prune_old_attempts") /\ last'.ip = ip)
        => PrunedFrom(ip_attempts[ip], ip_attempts'[ip],
                      now - Secs(cfg.window_duration)) ]_vars

\* a record exactly window_duration old was dropped, a newer failed one kept
C21_Witness ==
  /\ last.op = "_prune_old_attempts"
  /\ Len(last.status) = MaxHistory
  /\ \E i \in 1..Len(last.status) :
        last.status[i].timestamp = last.t - Secs(cfg.window_duration)
  /\ Len(ip_attempts[last.ip].attempts) = 1
  /\ ip_attempts[last.ip].failed_attempts = 1

(***************************************************************************)
(* C22  Garbage-collector safety: a call that runs the cleanup sweep       *)
(* removes no entry whose lock is still active and no entry whose most     *)
(* recent record is within window_duration of now, and leaves every entry  *)
(* it does not remove as it was (the key the call then checks may have its *)
(* lapsed locked_until unset by the check itself).                         *)
(***************************************************************************)
RecentRecord(status) ==
  \E i \in 1..Len(status.attempts) :
    status.attempts[i].timestamp >= now - Secs(cfg.window_duration)

SweepSafe(map, mapAfter, checked) ==
  /\ DOMAIN mapAfter \subseteq DOMAIN map
  /\ \A k \in DOMAIN map :
       IF k \in DOMAIN mapAfter
       THEN \/ mapAfter[k] = map[k]
            \/ /\ k \in checked
               /\ Expired(map[k])
               /\ mapAfter[k] = [map[k] EXCEPT !.locked_until = None]
       ELSE ~ActiveLock(map[k]) /\ ~RecentRecord(map[k])

C22_SweepSafety ==
  [][ /\ CallStep("is_ip_locked")
           => /\ SweepSafe(ip_attempts, ip_attempts', {last'.ip})
              /\ SweepSafe(account_attempts, account_attempts', {})
      /\ CallStep("is_account_locked")
           => /\ SweepSafe(ip_attempts, ip_attempts', {})
              /\ SweepSafe(account_attempts, account_attempts', {last'.email})
      /\ CallStep("get_status")
           => /\ SweepSafe(ip_attempts, ip_attempts', {last'.ip})
              /\ SweepSafe(account_attempts, account_attempts', {last'.email}) ]_vars

\* get_status found the address's entry, its lock check swept the entry away
\* (lapsed lock, no recent record), and the account's entry, never locked,
\* was kept
C22_Witness ==
  /\ last.op = "get_status"
  /\ last.swept
  /\ last.status.ip # <<>>
  /\ last.ip \notin DOMAIN ip_attempts
  /\ \E email \in DOMAIN account_attempts :
        /\ account_attempts[email].locked_until = None
        /\ account_attempts[email].attempts # <<>>

(***************************************************************************)
(* C23  Garbage-collector amortization: a lock check made less than        *)
(* cleanup_interval after the last sweep removes no entry and leaves       *)
(* last_cleanup alone; a call that sweeps sets last_cleanup to now; hence  *)
(* last_cleanup only ever moves to the current time, and by at least       *)
(* cleanup_interval.                                                       *)
(***************************************************************************)
LockCheckStep ==
  CallStep("is_ip_locked") \/ CallStep("is_account_locked") \/ CallStep("get_status")

C23_SweepAmortized ==
  [][ /\ last_cleanup' # last_cleanup
           => /\ LockCheckStep
              /\ last'.swept
              /\ last_cleanup' = now
              /\ now - last_cleanup >= Secs(cfg.cleanup_interval)
      /\ (LockCheckStep /\ now - last_cleanup < Secs(cfg.cleanup_interval))
           => /\ ~last'.swept
              /\ last_cleanup' = last_cleanup
              /\ DOMAIN ip_attempts' = DOMAIN ip_attempts
              /\ DOMAIN account_attempts' = DOMAIN account_attempts
      /\ (LockCheckStep /\ last'.swept) => last_cleanup' = now ]_vars

\* a lock check half a second after a sweep: the address's entry, with a
\* lapsed lock and no recent record, is not collected by this call
C23_Witness ==
  /\ last.op = "is_ip_locked"
  /\ ~last.swept
  /\ last_cleanup > StartTime
  /\ last.t > last_cleanup
  /\ last.ip \in DOMAIN ip_attempts
  /\ ip_attempts[last.ip].lockout_count >= 1
  /\ ~RecentRecord(ip_attempts[last.ip])

(***************************************************************************)
(* C24  Garbage collector under concurrency: with the sweep interleaved    *)
(* statement by statement with record_attempt and reset calls of other     *)
(* threads, no sweep ends in an error: no map changes size while a sweep   *)
(* iterates it (RuntimeError), and no sweep deletes a key that is already  *)
(* gone (KeyError).                                                        *)
(***************************************************************************)
C24_SweepConcurrent == \A t \in Threads : th[t].pc # "error"

(***************************************************************************)
(* C25  Linearizability of the write path: when concurrent record_attempt  *)
(* calls on the same address and account have all returned, the store is   *)
(* the one left by running the same calls one at a time in some order:     *)
(* every call's record is in both histories, in one common order, and      *)
(* failed_attempts, locked_until and lockout_count of both keys are those  *)
(* of that serial run.                                                     *)
(***************************************************************************)
\* the status of a key after record_attempt has run alone, call by call, for
\* the attempts of history h in their order
RECURSIVE SerialStatus(_)
SerialStatus(h) ==
  IF h = <<>> THEN LockoutStatus
  ELSE LET attempt == h[Len(h)]
           appended == Appended(SerialStatus(SubSeq(h, 1, Len(h) - 1)), attempt)
       IN IF attempt.success
          THEN [appended EXCEPT !.failed_attempts = 0]
          ELSE Imposed(Counted(appended, attempt.timestamp), attempt.timestamp)

AllReturned == \A t \in Threads : th[t].pc = "idle"

C25_Linearizable ==
  (AllReturned /\ calls > 0)
  => \A ip \in DOMAIN ip_attempts, email \in DOMAIN account_attempts :
       /\ Len(ip_attempts[ip].attempts) = calls
       /\ account_attempts[email].attempts = ip_attempts[ip].attempts
       /\ ip_attempts[ip] = SerialStatus(ip_attempts[ip].attempts)
       /\ account_attempts[email] = SerialStatus(account_attempts[email].attempts)

(***************************************************************************)
(* C26  Independent account check (max_attempts >= 2): when a failed       *)
(* attempt completes max_attempts in-window failures against one account,  *)
(* each from a different address that has no other failure, the call locks *)
(* the account with reason "account" and none of those addresses is        *)
(* locked; symmetrically for one address against different accounts.       *)
(***************************************************************************)
\* the last n records of h are in-window failures whose `field` (the other
\* key of the attempt) is different in each
SpreadFailures(h, n, field) ==
  /\ Len(h) >= n
  /\ \A i \in (Len(h) - n + 1)..Len(h) :
        /\ ~h[i].success
        /\ h[i].timestamp > now - Secs(cfg.window_duration)
        /\ \A j \in (Len(h) - n + 1)..Len(h) : i # j => h[i][field] # h[j][field]

\* the keys named by `field` in the last n records of h
Sources(h, n, field) == { h[i][field] : i \in (Len(h) - n + 1)..Len(h) }

\* none of the keys is locked, each holding a single failure
NoneLocked(map, keys) ==
  \A k \in keys : k \in DOMAIN map /\ map[k].locked_until = None

SingleFailure(map, keys) ==
  \A k \in keys : k \in DOMAIN map /\ CountFailed(map[k].attempts) = 1

C26_IndependentCheck ==
  [][ \A ip \in IPs, email \in Emails :
        (RecordStep(ip, email) /\ ~last'.success /\ cfg.max_attempts >= 2)
        => LET n == cfg.max_attempts
               ha == account_attempts'[email].attempts
               hi == ip_attempts'[ip].attempts
           IN /\ ( /\ SpreadFailures(ha, n, "ip_address")
                   /\ SingleFailure(ip_attempts', Sources(ha, n, "ip_address")) )
                 => /\ last'.account_locked
                    /\ last'.reason = "account"
                    /\ NoneLocked(ip_attempts', Sources(ha, n, "ip_address"))
              /\ ( /\ SpreadFailures(hi, n, "email")
                   /\ SingleFailure(account_attempts', Sources(hi, n, "email")) )
                 => /\ last'.ip_locked
                    /\ last'.reason = "ip"
                    /\ NoneLocked(account_attempts', Sources(hi, n, "email")) ]_vars

(***************************************************************************)
(* C27  Entry life cycle: an entry for a key appears only in a             *)
(* record_attempt naming the key and disappears only in a reset of the key *)
(* or in a sweep that finds it removable; is_ip_locked, is_account_locked  *)
(* and get_status asked about a key with no entry answer (false, none) /   *)
(* leave the key out and create no entry; a record_attempt for a key with  *)
(* no entry, whether never seen or removed before, leaves lockout_count 0  *)
(* (1 if it locks) and the first lock lasts lockout_duration.              *)
(***************************************************************************)
\* the key's entry appears in this step
Appears(map, mapAfter, key) == key \notin DOMAIN map /\ key \in DOMAIN mapAfter

\* the key's entry disappears in this step
Disappears(map, mapAfter, key) == key \in DOMAIN map /\ key \notin DOMAIN mapAfter

\* a step in which the sweep ran and found the key removable
SweptAway(map, key) == last'.swept /\ key \in ToRemove(map, now)

\* a query about a key without entry: nothing reported, nothing created
AbsentQuery(map, mapAfter, key) ==
  key \notin DOMAIN map
  => /\ key \notin DOMAIN mapAfter
     /\ last'.op \in {"is_ip_locked", "is_account_locked"}
          => ~last'.locked /\ last'.remaining = None

C27_EntryLifeCycle ==
  [][ /\ \A ip \in IPs :
           /\ Appears(ip_attempts, ip_attempts', ip)
                => last'.op = "record_attempt" /\ last'.ip = ip
           /\ Disappears(ip_attempts, ip_attempts', ip)
                => \/ CallStep("reset_ip") /\ last'.ip = ip
                   \/ SweptAway(ip_attempts, ip)
           /\ (CallStep("is_ip_locked") /\ last'.ip = ip)
                => AbsentQuery(ip_attempts, ip_attempts', ip)
           /\ (CallStep("get_status") /\ last'.ip = ip)
                => /\ AbsentQuery(ip_attempts, ip_attempts', ip)
                   /\ ip \notin DOMAIN ip_attempts => last'.status.ip = <<>>
           /\ \A email \in Emails :
                (RecordStep(ip, email) /\ ~last'.success /\ ip \notin DOMAIN ip_attempts)
                => FreshStart(ip_attempts, ip_attempts', ip, last'.ip_locked)
      /\ \A email \in Emails :
           /\ Appears(account_attempts, account_attempts', email)
                => last'.op = "record_attempt" /\ last'.email = email
           /\ Disappears(account_attempts, account_attempts', email)
                => \/ CallStep("reset_account") /\ last'.email = email
                   \/ SweptAway(account_attempts, email)
           /\ (CallStep("is_account_locked") /\ last'.email = email)
                => AbsentQuery(account_attempts, account_attempts', email)
           /\ (CallStep("get_status") /\ last'.email = email)
                => /\ AbsentQuery(account_attempts, account_attempts', email)
                   /\ email \notin DOMAIN account_attempts
                        => last'.status.account = <<>>
           /\ \A ip \in IPs :
                (RecordStep(ip, email) /\ ~last'.success
                   /\ email \notin DOMAIN account_attempts)
                => FreshStart(account_attempts, account_attempts', email,
                              last'.account_locked) ]_vars

\* a key recorded at an earlier instant has been removed and has come back:
\* both entries hold the one new failure, lockout_count 1, base duration
C27_Witness ==
  /\ last.op = "record_attempt"
  /\ ~last.success
  /\ calls >= 2
  /\ now > StartTime
  /\ last.ip_locked /\ last.account_locked
  /\ LET st == ip_attempts[last.ip]
         ac == account_attempts[last.email]
     IN /\ Len(st.attempts) = 1 /\ Len(ac.attempts) = 1
        /\ st.first_attempt_time = now /\ ac.first_attempt_time = now
        /\ st.lockout_count = 1 /\ ac.lockout_count = 1
        /\ st.locked_until = now + Secs(cfg.lockout_duration)

(***************************************************************************)
(* C28  An active lock is never shortened: when record_attempt sets        *)
(* locked_until on a key whose previous locked_until is still in the       *)
(* future, the new value is at least the previous one, and no step other   *)
(* than a reset of the key moves an active locked_until earlier or removes *)
(* it.  Holds when lockout_duration <= max_lockout_duration or the backoff *)
(* is off; the second formula is the statement for every configuration.    *)
(***************************************************************************)
\* the first lock (uncapped base) is not longer than the later, capped ones
BaseWithinCap ==
  ~cfg.exponential_backoff \/ cfg.lockout_duration <= cfg.max_lockout_duration

\* the step leaves the key's active lock at least as late as it was
KeepsLock(map, mapAfter, key) ==
  (key \in DOMAIN map /\ ActiveLock(map[key]))
  => /\ key \in DOMAIN mapAfter
     /\ mapAfter[key].locked_until # None
     /\ mapAfter[key].locked_until >= map[key].locked_until

NeverShortened ==
  /\ \A ip \in IPs :
       ~(CallStep("reset_ip") /\ last'.ip = ip)
       => KeepsLock(ip_attempts, ip_attempts', ip)
  /\ \A email \in Emails :
       ~(CallStep("reset_account") /\ last'.email = email)
       => KeepsLock(account_attempts, account_attempts', email)

Recent(attempts, t) ==
  SelectSeq(attempts, LAMBDA a : a.timestamp > t - Secs(cfg.window_duration))

\* the history, counter and time stamps a failed attempt leaves on a key
HistoryExtended(map, mapAfter, key, ip, email) ==
  LET old == IF key \in DOMAIN map THEN map[key].attempts ELSE <<>>
      first == IF key \in DOMAIN map THEN map[key].first_attempt_time ELSE None
  IN /\ mapAfter[key].attempts = Recent(Append(old, LoginAttempt(now, FALSE, ip, email)), now)
     /\ mapAfter[key].failed_attempts = InWindowFailures(mapAfter[key].attempts, now) + 1
     /\ mapAfter[key].last_attempt_time = now
     /\ mapAfter[key].first_attempt_time = IF first = None THEN now ELSE first

\* the key was locked before, is not locked now, and its failures still count
Lapsed(map, key) ==
  /\ key \in DOMAIN map
  /\ map[key].lockout_count >= 1
  /\ ~ActiveLock(map[key])
  /\ InWindowFailures(map[key].attempts, now) >= cfg.max_attempts - 1

Relocked(map, mapAfter, key, locked) ==
  Lapsed(map, key)
  => /\ locked
     /\ mapAfter[key].lockout_count = map[key].lockout_count + 1
     /\ mapAfter[key].locked_until
          = now + Secs(DocumentedDuration(map[key].lockout_count))

\* a lock check leaves history, counter and lockout_count of what it keeps
ExpiryKeeps(map, mapAfter) ==
  \A k \in DOMAIN map \cap DOMAIN mapAfter :
     /\ mapAfter[k].attempts = map[k].attempts
     /\ mapAfter[k].failed_attempts = map[k].failed_attempts
     /\ mapAfter[k].lockout_count = map[k].lockout_count

C29_Relock ==
  [][ /\ \A ip \in IPs, email \in Emails :
           (RecordStep(ip, email) /\ ~last'.success)
           => /\ HistoryExtended(ip_attempts, ip_attempts', ip, ip, email)
              /\ HistoryExtended(account_attempts, account_attempts', email, ip, email)
              /\ Relocked(ip_attempts, ip_attempts', ip, last'.ip_locked)
              /\ Relocked(account_attempts, account_attempts', email,
                          last'.account_locked)
      /\ (now' = now /\ last'.op \in {"is_ip_locked", "is_account_locked", "get_status"})
           => /\ ExpiryKeeps(ip_attempts, ip_attempts')
              /\ ExpiryKeeps(account_attempts, account_attempts') ]_vars

\* max_attempts = 3: two failures locked the address, the lock has lapsed
\* inside the window, and the next single failure has locked it again for
\* the second duration of the backoff
C29_Witness ==
  /\ cfg.max_attempts = 3
  /\ cfg.window_duration > cfg.lockout_duration
  /\ last.op = "record_attempt"
  /\ last.ip_locked
  /\ LET st == ip_attempts[last.ip] IN
       /\ Len(st.attempts) = 3
       /\ \A i \in 1..3 : ~st.attempts[i].success
       /\ st.attempts[3].timestamp = now
       /\ st.attempts[2].timestamp + Secs(cfg.lockout_duration) <= now
       /\ st.attempts[1].timestamp > now - Secs(cfg.window_duration)
       /\ st.lockout_count = 2
       /\ st.locked_until = now + Secs(BackoffTerm(1))

(***************************************************************************)
(* C30  Reset frame: reset_ip(k) removes at most the address entry of k,   *)
(* leaves every other address entry and the whole account map as they were *)
(* (also the account keyed by the same string k), and symmetrically for    *)
(* reset_account; a reset of a key without entry changes nothing; no reset *)
(* runs the sweep or changes last_cleanup, the clock or the configuration. *)
(***************************************************************************)
\* the map after the step is the map before without the key, and nothing else
OnlyRemoves(map, mapAfter, key) ==
  /\ DOMAIN mapAfter = DOMAIN map \ {key}
  /\ \A k \in DOMAIN mapAfter : mapAfter[k] = map[k]
  /\ key \notin DOMAIN map => mapAfter = map

C30_ResetFrame ==
  [][ /\ \A ip \in IPsWithEmpty :
           (CallStep("reset_ip") /\ last'.ip = ip)
           => /\ OnlyRemoves(ip_attempts, ip_attempts', ip)
              /\ account_attempts' = account_attempts
              /\ last_cleanup' = last_cleanup
              /\ ~last'.swept
              /\ UNCHANGED <<cfg, now>>
      /\ \A email \in EmailsWithEmpty :
           (CallStep("reset_account") /\ last'.email = email)
           => /\ OnlyRemoves(account_attempts, account_attempts', email)
              /\ ip_attempts' = ip_attempts
              /\ last_cleanup' = last_cleanup
              /\ ~last'.swept
              /\ UNCHANGED <<cfg, now>> ]_vars

\* reset_ip(k) has removed the address k while the account keyed by the same
\* string k, locked by an attempt from address k, keeps lock and
\* lockout_count, and another address keeps its entry
C30_Witness ==
  /\ last.op = "reset_ip"
  /\ last.ip \notin DOMAIN ip_attempts
  /\ last.ip \in DOMAIN account_attempts
  /\ LET ac == account_attempts[last.ip] IN
       /\ ActiveLock(ac)
       /\ ac.lockout_count >= 1
       /\ \E i \in 1..Len(ac.attempts) : ac.attempts[i].ip_address = last.ip
  /\ \E other \in DOMAIN ip_attempts : other # last.ip

====
